---- MODULE Spec2Model ----
(***************************************************************************)
(* Layer-dependent importance sampler of AutoGL                            *)
(* (autogl/module/train/sampling/sampler/layer_dependent_importance_       *)
(* sampler.py).  Tensors are sequences; real values are exact rationals    *)
(* <<numerator, denominator>> in lowest terms; numpy's global random       *)
(* state is a variable that every draw reads and advances.                 *)
(***************************************************************************)
EXTENDS Integers, Sequences, FiniteSets, TLC

VARIABLES
    all_edge_index,                  \* the argument of __init__
    constructed,                     \* whether __init__ has run
    all_edge_index_with_self_loops,  \* self.__all_edge_index_with_self_loops
    all_edge_weights,                \* self.__all_edge_weights
    np_random_state,                 \* numpy's global RandomState
    pc,                              \* per caller: idle / sampling / returned / raised
    args,                            \* per caller: the arguments of sample()
    upper,                           \* per caller: upper_layer_sampled_node_indexes
    todo,                            \* per caller: budgets the loop has not used yet
    layers,                          \* per caller: the list `layers`
    result,                          \* per caller: the value sample() returned
    err,                             \* per caller: the exception sample() raised
    trace,                           \* per caller: the __sample_layer invocations so far
    rng0,                            \* per caller: np_random_state when sample() was entered
    draws,                           \* per caller: the uniform samples its draws consumed
    split                            \* random_splits_mask_class on one node type

vars == <<all_edge_index, constructed, all_edge_index_with_self_loops,
          all_edge_weights, np_random_state, pc, args, upper, todo, layers,
          result, err, trace, rng0, draws, split>>

\* the sampler, its callers and numpy's random state
sampler_vars == <<all_edge_index, constructed, all_edge_index_with_self_loops,
                  all_edge_weights, np_random_state, pc, args, upper, todo,
                  layers, result, err, trace, rng0, draws>>

(***************************************************************************)
(* Bounds                                                                  *)
(***************************************************************************)
\* largest node index of an edge index enumerated for construction
MaxNode == 2
\* longest edge index enumerated for construction
MaxEdgeLen == 3
\* largest per-layer node budget
MaxBudget == 2
\* longest budget sequence
MaxLayers == 2
\* number of distinct states of the modelled random generator
RngPeriod == 4
\* most nodes of a node type whose masks are split
MaxSplitNodes == 4
\* largest class label
MaxClass == 1
\* largest num_train_per_class and num_val_per_class
MaxPerClass == 1
\* largest total_num_val and total_num_test
MaxTotal == 2

(***************************************************************************)
(* Exact rational arithmetic                                               *)
(***************************************************************************)
Abs(x) == IF x < 0 THEN -x ELSE x

RECURSIVE GCD(_, _)
GCD(a, b) == IF b = 0 THEN a ELSE GCD(b, a % b)

Rat(n, d) ==
    LET g == GCD(Abs(n), Abs(d))
        s == IF d < 0 THEN -1 ELSE 1
    IN  IF d = 0 THEN <<0, 0>> ELSE <<s * (n \div g), s * (d \div g)>>

Zero == <<0, 1>>
One == <<1, 1>>
RAdd(x, y) == Rat(x[1] * y[2] + y[1] * x[2], x[2] * y[2])
RMul(x, y) == Rat(x[1] * y[1], x[2] * y[2])
RDiv(x, y) == Rat(x[1] * y[2], x[2] * y[1])
RLeq(x, y) == x[1] * y[2] <= y[1] * x[2]

RECURSIVE RSum(_)
RSum(s) == IF s = <<>> THEN Zero ELSE RAdd(Head(s), RSum(Tail(s)))

(***************************************************************************)
(* Tensor helpers                                                          *)
(***************************************************************************)
Range(s) == {s[i] : i \in 1..Len(s)}

SetMin(S) == CHOOSE x \in S : \A y \in S : x <= y
SetMax(S) == CHOOSE x \in S : \A y \in S : y <= x

RECURSIVE SortedSeq(_)
SortedSeq(S) ==
    IF S = {} THEN <<>> ELSE <<SetMin(S)>> \o SortedSeq(S \ {SetMin(S)})

\* torch.Tensor.unique(): the distinct values in ascending order
Unique(s) == SortedSeq(Range(s))

\* t[idx] for an index tensor idx (positions are 1-based here)
Gather(t, idx) == [i \in 1..Len(idx) |-> t[idx[i]]]

Reverse(s) == [i \in 1..Len(s) |-> s[Len(s) + 1 - i]]

Src(e) == e[1]
Tgt(e) == e[2]

(***************************************************************************)
(* Construction                                                            *)
(***************************************************************************)
\* torch_geometric.utils.num_nodes.maybe_num_nodes
MaybeNumNodes(ei) ==
    IF ei = <<>> THEN 0
    ELSE 1 + SetMax({Src(ei[i]) : i \in 1..Len(ei)} \cup {Tgt(ei[i]) : i \in 1..Len(ei)})

\* a mutation: the edge index is kept as given, no self-loop is added
KeepEdgeIndex(ei) == ei

\* torch_geometric.utils.add_remaining_self_loops(edge_index)[0]: the edges
\* that are no self-loop, in order, then one self-loop per node 0..N-1
add_remaining_self_loops(ei) ==
    SelectSeq(ei, LAMBDA e : Src(e) # Tgt(e))
        \o [i \in 1..MaybeNumNodes(ei) |-> <<i - 1, i - 1>>]

\* torch_geometric.utils.degree(index): occurrences of node n in index
degree(index, n) == Cardinality({i \in 1..Len(index) : index[i] = n})

\* 1.0 / d with the non-finite value clamped to 0 (lines 26-27)
Reciprocal(d) == IF d = 0 THEN Zero ELSE Rat(1, d)

compute_edge_weights(E) ==
    LET srcs == [i \in 1..Len(E) |-> Src(E[i])]
        tgts == [i \in 1..Len(E) |-> Tgt(E[i])]
    IN  [i \in 1..Len(E) |->
            RMul(Reciprocal(degree(srcs, Src(E[i]))),
                 Reciprocal(degree(tgts, Tgt(E[i]))))]

(***************************************************************************)
(* _Utility.get_candidate_source_nodes_probabilities                       *)
(***************************************************************************)
\* a mutation: each probability is taken over the weight of all edges
ProbabilitiesOverAllEdges(cand, E, W) ==
    LET srcs == Unique([i \in 1..Len(cand) |-> Src(E[cand[i]])])
    IN  <<srcs,
          [k \in 1..Len(srcs) |->
              RDiv(RSum(Gather(W, SelectSeq(cand, LAMBDA i : Src(E[i]) = srcs[k]))),
                   RSum(W))]>>

\* <<all_candidate_source_nodes_indexes, all_candidate_source_nodes_probabilities>>
get_candidate_source_nodes_probabilities(cand, E, W) ==
    LET srcs == Unique([i \in 1..Len(cand) |-> Src(E[cand[i]])])
        cw == Gather(W, cand)
    IN  <<srcs,
          [k \in 1..Len(srcs) |->
              RDiv(RSum(Gather(W, SelectSeq(cand, LAMBDA i : Src(E[i]) = srcs[k]))),
                   RSum(cw))]>>

(***************************************************************************)
(* _Utility.filter_selected_edges_by_source_nodes_and_target_nodes         *)
(***************************************************************************)
\* a mutation: the target mask is not applied
FilterBySourceOnly(E, sources, targets) ==
    SortedSeq({i \in 1..Len(E) : Src(E[i]) \in Range(Unique(sources))})

filter_selected_edges_by_source_nodes_and_target_nodes(E, sources, targets) ==
    LET src_mask == {i \in 1..Len(E) : Src(E[i]) \in Range(Unique(sources))}
        tgt_mask == {i \in 1..Len(E) : Tgt(E[i]) \in Range(Unique(targets))}
    IN  SortedSeq(src_mask \cap tgt_mask)

(***************************************************************************)
(* numpy.random.choice(numpy.arange(n), size, p = p) on the global state   *)
(***************************************************************************)
\* the uniform sample in [0, 1) the generator yields in state st
Uniform(st) == Rat(st, RngPeriod)

NextRandomState(st, size) == (st + size) % RngPeriod

Cumsum(p) == [k \in 1..Len(p) |-> RSum(SubSeq(p, 1, k))]

\* cdf.searchsorted(u, side = 'right'), as a position 1..n
SearchSortedRight(cdf, u) ==
    1 + Cardinality({k \in 1..Len(cdf) : RLeq(cdf[k], u)})

choice(st, size, p) ==
    LET cdf0 == Cumsum(p)
        cdf == [k \in 1..Len(p) |-> RDiv(cdf0[k], cdf0[Len(p)])]
    IN  [j \in 1..size |->
            SearchSortedRight(cdf, Uniform((st + j - 1) % RngPeriod))]

(***************************************************************************)
(* LayerDependentImportanceSampler.__sample_layer                          *)
(***************************************************************************)
\* a mutation: concatenating an empty list gives an empty tensor
CatNeverRaises(tensors) == "none"

\* torch.cat(tensors) raises a RuntimeError on an empty list of tensors
torch_cat_error(tensors) ==
    IF tensors = <<>> THEN "RuntimeError" ELSE "none"

\* lines 112-117: the indexes of the edges whose target is a target node
all_candidate_edge_indexes(E, targets) ==
    SortedSeq({i \in 1..Len(E) : Tgt(E[i]) \in Range(Unique(targets))})

\* a mutation: a draw is also made when the budget equals the candidate count
DrawsAtEquality(budget, n) == budget <= n

\* line 127: whether the budget forces a draw
budget_below_candidates(budget, n) == budget < n

\* a mutation: the drawn positions are taken for node indexes
DrawnPositionsAsNodes(srcs, picks) == Unique([j \in 1..Len(picks) |-> picks[j] - 1])

\* lines 128-135: the candidate sources at the drawn positions, deduplicated
drawn_source_nodes(srcs, picks) == Unique(Gather(srcs, Unique(picks)))

\* lines 150-152: probabilities[source_indexes == s].item(); <<0, 0>> stands
\* for the failure of item() on a tensor that has not exactly one element
probability_of(srcs, probs, s) ==
    LET hits == {k \in 1..Len(srcs) : srcs[k] = s}
    IN  IF Cardinality(hits) = 1 THEN probs[CHOOSE k \in hits : TRUE] ELSE <<0, 0>>

\* lines 146-158
non_normalized_selected_edges_weight(E, W, sel, selected, srcs, probs) ==
    [i \in 1..Len(sel) |->
        RDiv(W[sel[i]],
             RMul(Rat(Len(selected), 1), probability_of(srcs, probs, Src(E[sel[i]]))))]

\* a mutation: the reweighted values are returned as they are
NoNormalization(edge_index, edge_weight) == edge_weight

\* lines 160-174: each weight divided by the sum of the weights of the edges
\* of the same target
normalize_edges_weight_by_target_nodes(edge_index, edge_weight) ==
    [i \in 1..Len(edge_weight) |->
        RDiv(edge_weight[i],
             RSum(Gather(edge_weight,
                         SortedSeq({j \in 1..Len(edge_index) :
                                        Tgt(edge_index[j]) = Tgt(edge_index[i])}))))]

\* a mutation: the selected weights are a view of the stored weights, so the
\* in-place normalization writes into them
WeightsWrittenThrough(W, sel, normalized) ==
    [i \in 1..Len(W) |->
        IF \E k \in 1..Len(sel) : sel[k] = i
        THEN normalized[CHOOSE k \in 1..Len(sel) : sel[k] = i]
        ELSE W[i]]

\* lines 146-147, 169: self.__all_edge_weights[indexes] is a copy, so the
\* stored weights are what they were
stored_weights_after_normalize(W, sel, normalized) == W

NoLayer(targets, budget, stage, error, st) ==
    [targets |-> targets, budget |-> budget, stage |-> stage, error |-> error,
     candidate_edges |-> <<>>, candidate_sources |-> <<>>, probabilities |-> <<>>,
     probs_computed |-> FALSE, drew |-> FALSE, picks |-> <<>>,
     selected_source |-> <<>>, selected_edges |-> <<>>, edge_index |-> <<>>,
     raw_weight |-> <<>>, edge_weight |-> <<>>,
     rng_before |-> st, rng_after |-> st]

\* one invocation of __sample_layer in random state st: what it computed and
\* how it ended (stage "returned", or the place where it raised)
sample_layer(E, W, targets, budget, st) ==
    IF torch_cat_error(Unique(targets)) # "none"
    THEN NoLayer(targets, budget, "candidates", torch_cat_error(Unique(targets)), st)
    ELSE
    LET cand == all_candidate_edge_indexes(E, targets)
        sp == get_candidate_source_nodes_probabilities(cand, E, W)
        srcs == sp[1]
        probs == sp[2]
        draw == budget_below_candidates(budget, Len(srcs))
        picks == IF draw THEN choice(st, budget, probs) ELSE <<>>
        selected == IF draw THEN drawn_source_nodes(srcs, picks) ELSE srcs
        st2 == IF draw THEN NextRandomState(st, budget) ELSE st
        computed == [NoLayer(targets, budget, "returned", "none", st) EXCEPT
                        !.candidate_edges = cand, !.candidate_sources = srcs,
                        !.probabilities = probs, !.probs_computed = TRUE,
                        !.drew = draw, !.picks = picks,
                        !.selected_source = selected, !.rng_after = st2]
    IN  IF torch_cat_error(Unique(selected)) # "none"
        THEN [computed EXCEPT !.stage = "filter",
                              !.error = torch_cat_error(Unique(selected))]
        ELSE
        LET sel == Unique(filter_selected_edges_by_source_nodes_and_target_nodes(
                              E, selected, targets))
            raw == non_normalized_selected_edges_weight(E, W, sel, selected, srcs, probs)
            ei == Gather(E, sel)
        IN  IF \E i \in 1..Len(sel) :
                   probability_of(srcs, probs, Src(E[sel[i]])) = <<0, 0>>
            THEN [computed EXCEPT !.stage = "reweight", !.error = "ValueError",
                                  !.selected_edges = sel]
            ELSE [computed EXCEPT
                     !.selected_edges = sel, !.edge_index = ei, !.raw_weight = raw,
                     !.edge_weight = normalize_edges_weight_by_target_nodes(ei, raw)]

(***************************************************************************)
(* LayerDependentImportanceSampler.sample                                  *)
(***************************************************************************)
Callers == {"a", "b"}

\* the types that are a typing.Sequence
SequenceTypes == {"list", "tuple"}

NoArgs == [targets |-> [type |-> "none", data |-> <<>>],
           budgets |-> [type |-> "none", data |-> <<>>]]

\* a mutation: an empty budget sequence is not rejected
ValidationWithoutEmptyCheck(targets, budgets) ==
    IF targets.type # "Tensor" THEN "TypeError"
    ELSE IF budgets.type \notin SequenceTypes THEN "TypeError"
    ELSE "none"

\* lines 196-201: the exception the argument checks raise, "none" if none
validation_error(targets, budgets) ==
    IF targets.type # "Tensor" THEN "TypeError"
    ELSE IF budgets.type \notin SequenceTypes THEN "TypeError"
    ELSE IF Len(budgets.data) = 0 THEN "ValueError"
    ELSE "none"

\* a mutation: the budgets are used in the order given
BudgetsInGivenOrder(budgets) == budgets

\* line 205: sampling_node_size_budgets[::-1]
budgets_in_loop_order(budgets) == Reverse(budgets)

\* a mutation: the whole result of __sample_layer is kept
WholeSamplingResult(r) ==
    <<r.edge_index, r.edge_weight, r.selected_source, r.selected_edges>>

\* lines 209-211: what the loop appends to `layers`
layer_entry(r) == <<r.edge_index, r.edge_weight>>

\* a mutation: the next layer is sampled from all candidate sources
NextFromCandidates(r) == r.candidate_sources

\* line 213: upper_layer_sampled_node_indexes = _sampling_result[2]
next_target_nodes(r) == r.selected_source

\* a mutation: the layers are returned in the order they were sampled
LayersAsSampled(ls) == ls

\* line 215: layers[::-1]
returned_layers(ls) == Reverse(ls)

NoneSampling == \A p \in Callers : pc[p] # "sampling"

\* __init__ (lines 96-100)
Construct ==
    /\ ~constructed
    /\ constructed' = TRUE
    /\ all_edge_index_with_self_loops' = add_remaining_self_loops(all_edge_index)
    /\ all_edge_weights' =
           compute_edge_weights(add_remaining_self_loops(all_edge_index))
    /\ UNCHANGED split
    /\ UNCHANGED <<all_edge_index, np_random_state, pc, args, upper, todo,
                   layers, result, err, trace, rng0, draws>>

\* the caller seeds the global generators between two runs
set_seed(seed) ==
    /\ NoneSampling
    /\ np_random_state # seed
    /\ np_random_state' = seed
    /\ UNCHANGED split
    /\ UNCHANGED <<all_edge_index, constructed, all_edge_index_with_self_loops,
                   all_edge_weights, pc, args, upper, todo, layers, result, err,
                   trace, rng0, draws>>

CanEnter(p) == constructed /\ pc[p] = "idle"

\* sample() is entered: the argument checks, then the loop's initial state
sample_enter(p, targets, budgets) ==
    /\ CanEnter(p)
    /\ args' = [args EXCEPT ![p] = [targets |-> targets, budgets |-> budgets]]
    /\ rng0' = [rng0 EXCEPT ![p] = np_random_state]
    /\ IF validation_error(targets, budgets) # "none"
       THEN /\ pc' = [pc EXCEPT ![p] = "raised"]
            /\ err' = [err EXCEPT ![p] = validation_error(targets, budgets)]
            /\ UNCHANGED <<upper, todo>>
       ELSE /\ pc' = [pc EXCEPT ![p] = "sampling"]
            /\ upper' = [upper EXCEPT ![p] = targets.data]
            /\ todo' = [todo EXCEPT ![p] = budgets_in_loop_order(budgets.data)]
            /\ UNCHANGED err
    /\ UNCHANGED split
    /\ UNCHANGED <<all_edge_index, constructed, all_edge_index_with_self_loops,
                   all_edge_weights, np_random_state, layers, result, trace, draws>>

\* one iteration of the loop of lines 205-213
sample_iterate(p) ==
    /\ pc[p] = "sampling"
    /\ todo[p] # <<>>
    /\ \E r \in {sample_layer(all_edge_index_with_self_loops, all_edge_weights,
                             upper[p], Head(todo[p]), np_random_state)} :
           /\ trace' = [trace EXCEPT ![p] = Append(@, r)]
           /\ np_random_state' = r.rng_after
           /\ draws' = [draws EXCEPT ![p] =
                  @ \o [j \in 1..Len(r.picks) |->
                           (r.rng_before + j - 1) % RngPeriod]]
           /\ IF r.stage = "returned"
              THEN /\ layers' = [layers EXCEPT ![p] = Append(@, layer_entry(r))]
                   /\ upper' = [upper EXCEPT ![p] = next_target_nodes(r)]
                   /\ todo' = [todo EXCEPT ![p] = Tail(@)]
                   /\ all_edge_weights' = stored_weights_after_normalize(
                          all_edge_weights, r.selected_edges, r.edge_weight)
                   /\ UNCHANGED <<pc, err>>
              ELSE /\ pc' = [pc EXCEPT ![p] = "raised"]
                   /\ err' = [err EXCEPT ![p] = r.error]
                   /\ UNCHANGED <<layers, upper, todo, all_edge_weights>>
    /\ UNCHANGED split
    /\ UNCHANGED <<all_edge_index, constructed, all_edge_index_with_self_loops,
                   args, result, rng0>>

\* line 215
sample_return(p) ==
    /\ pc[p] = "sampling"
    /\ todo[p] = <<>>
    /\ pc' = [pc EXCEPT ![p] = "returned"]
    /\ result' = [result EXCEPT ![p] = returned_layers(layers[p])]
    /\ UNCHANGED split
    /\ UNCHANGED <<all_edge_index, constructed, all_edge_index_with_self_loops,
                   all_edge_weights, np_random_state, args, upper, todo, layers,
                   err, trace, rng0, draws>>

\* the caller has consumed the outcome and may call sample() again
next_call(p) ==
    /\ pc[p] \in {"returned", "raised"}
    /\ pc' = [pc EXCEPT ![p] = "idle"]
    /\ args' = [args EXCEPT ![p] = NoArgs]
    /\ upper' = [upper EXCEPT ![p] = <<>>]
    /\ todo' = [todo EXCEPT ![p] = <<>>]
    /\ layers' = [layers EXCEPT ![p] = <<>>]
    /\ result' = [result EXCEPT ![p] = <<>>]
    /\ err' = [err EXCEPT ![p] = "none"]
    /\ trace' = [trace EXCEPT ![p] = <<>>]
    /\ rng0' = [rng0 EXCEPT ![p] = 0]
    /\ draws' = [draws EXCEPT ![p] = <<>>]
    /\ UNCHANGED split
    /\ UNCHANGED <<all_edge_index, constructed, all_edge_index_with_self_loops,
                   all_edge_weights, np_random_state>>

(***************************************************************************)
(* random_splits_mask_class (datasets/utils/_general.py), on the one node  *)
(* type of a homogeneous dataset of one graph                              *)
(***************************************************************************)
\* an optional integer argument left at its default, the Ellipsis
NotGiven == [given |-> FALSE, value |-> 0]
Given(n) == [given |-> TRUE, value |-> n]

\* isinstance(x, int) and x > 0
is_positive_int(x) == x.given /\ x.value > 0

NoMasks == [stored |-> FALSE, train_mask |-> {}, val_mask |-> {}, test_mask |-> {}]

\* no split asked for
NoSplit ==
    [pc |-> "none", keys |-> "none", label |-> <<>>,
     num_train_per_class |-> 0, num_val_per_class |-> 0,
     total_num_val |-> NotGiven, total_num_test |-> NotGiven, seed |-> NotGiven,
     torch_rng_state |-> 0, saved_rng_state |-> 0, class_index |-> 0,
     train_mask |-> {}, val_mask |-> {}, test_mask |-> {},
     data |-> NoMasks, err |-> "none"]

\* number of distinct states of the modelled torch generator
TorchRngPeriod == 2

\* python's s[a:b] for 0 <= a
Slice(s, a, b) ==
    SubSeq(s, (IF a < Len(s) THEN a ELSE Len(s)) + 1, IF b < Len(s) THEN b ELSE Len(s))

\* the nodes 0..num_nodes-1 of a label tensor
NodesOf(label) == 0..(Len(label) - 1)

\* label.cpu().max().item() + 1
num_classes(label) == SetMax(Range(label)) + 1

\* (mask).nonzero().view(-1): the nodes of a mask in ascending order
nonzero(mask) == SortedSeq(mask)

\* the values torch.randperm(n) can return, as positions 1..n
randperm(n) ==
    {f \in [1..n -> 1..n] : \A i, j \in 1..n : f[i] = f[j] => i = j}

\* remaining = (~train_mask).nonzero().view(-1)
remaining_for_total(nodes, train_mask, val_mask) == nonzero(nodes \ train_mask)

\* lines 175-203: the 'y'/'label' keys, the saved generator state, the seed
split_enter ==
    /\ split.pc = "called"
    /\ split' =
           IF split.keys = "both"
           THEN [split EXCEPT !.pc = "raised", !.err = "ValueError"]
           ELSE IF split.keys = "none"
           THEN [split EXCEPT !.pc = "skipped"]
           ELSE [split EXCEPT !.pc = "classes",
                              !.saved_rng_state = split.torch_rng_state,
                              !.torch_rng_state =
                                  IF split.seed.given THEN split.seed.value
                                  ELSE split.torch_rng_state,
                              !.train_mask = {}, !.val_mask = {}, !.test_mask = {},
                              !.class_index = 0]
    /\ UNCHANGED sampler_vars

\* lines 204-218: one class, its shuffle, its training and validation nodes
split_class ==
    /\ split.pc = "classes"
    /\ split.class_index < num_classes(split.label)
    /\ LET idx == nonzero({n \in NodesOf(split.label) :
                              split.label[n + 1] = split.class_index})
       IN  IF ~(split.num_train_per_class + split.num_val_per_class < Len(idx))
           THEN split' = [split EXCEPT !.pc = "raised", !.err = "AssertionError"]
           ELSE \E randomized_index \in randperm(Len(idx)) :
                    split' =
                        [split EXCEPT
                            !.train_mask = @ \cup Range(Gather(idx,
                                Slice(randomized_index, 0, split.num_train_per_class))),
                            !.val_mask = @ \cup Range(Gather(idx,
                                Slice(randomized_index, split.num_train_per_class,
                                      split.num_train_per_class + split.num_val_per_class))),
                            !.class_index = @ + 1,
                            !.torch_rng_state = (@ + 1) % TorchRngPeriod]
    /\ UNCHANGED sampler_vars

\* lines 220-227 and 232-235: total_num_val given, the second shuffle
split_rest_total ==
    /\ split.pc = "classes"
    /\ split.class_index = num_classes(split.label)
    /\ is_positive_int(split.total_num_val)
    /\ LET remaining0 == remaining_for_total(NodesOf(split.label),
                                             split.train_mask, split.val_mask)
       IN  \E perm \in randperm(Len(remaining0)) :
               LET remaining == Gather(remaining0, perm)
                   val_mask == split.val_mask
                       \cup Range(Slice(remaining, 0, split.total_num_val.value))
                   test_mask ==
                       IF is_positive_int(split.total_num_test)
                       THEN Range(Slice(remaining, split.total_num_val.value,
                                        split.total_num_val.value
                                            + split.total_num_test.value))
                       ELSE Range(Slice(remaining, split.total_num_val.value,
                                        Len(remaining)))
               IN  split' =
                       [split EXCEPT
                           !.pc = "stored",
                           !.val_mask = val_mask,
                           !.test_mask = test_mask,
                           !.torch_rng_state = split.saved_rng_state,
                           !.data = [stored |-> TRUE,
                                     train_mask |-> split.train_mask,
                                     val_mask |-> val_mask,
                                     test_mask |-> test_mask]]
    /\ UNCHANGED sampler_vars

\* lines 228-235: no total_num_val, the rest of the nodes is for testing
split_rest_default ==
    /\ split.pc = "classes"
    /\ split.class_index = num_classes(split.label)
    /\ ~is_positive_int(split.total_num_val)
    /\ LET test_mask == Range(nonzero(NodesOf(split.label)
                                          \ (split.train_mask \cup split.val_mask)))
       IN  split' =
               [split EXCEPT
                   !.pc = "stored",
                   !.test_mask = test_mask,
                   !.torch_rng_state = split.saved_rng_state,
                   !.data = [stored |-> TRUE,
                             train_mask |-> split.train_mask,
                             val_mask |-> split.val_mask,
                             test_mask |-> test_mask]]
    /\ UNCHANGED sampler_vars

(***************************************************************************)
(* Inputs                                                                  *)
(***************************************************************************)
\* the path 0 -> 1 -> 2 -> 3
PathEdgeIndex == <<<<0, 1>>, <<1, 2>>, <<2, 3>>>>

\* edge indexes given to __init__: the path, one with a duplicate edge and a
\* self-loop, one whose node 0 has three sources, one whose node 1 is on no
\* edge, and the empty one
EdgeIndexInputs ==
    {PathEdgeIndex,
     <<<<0, 1>>, <<0, 1>>, <<1, 1>>, <<2, 0>>>>,
     <<<<1, 0>>, <<2, 0>>, <<0, 2>>>>,
     <<<<0, 2>>, <<2, 0>>>>,
     <<>>}

\* every edge index of at most MaxEdgeLen edges over the nodes 0..MaxNode
AllEdgeIndexes ==
    UNION {[1..n -> (0..MaxNode) \X (0..MaxNode)] : n \in 0..MaxEdgeLen}

NodeCount == MaybeNumNodes(all_edge_index_with_self_loops)

\* target tensors: every set of nodes of the graph in ascending order, and
\* every node given twice
TargetData ==
    {SortedSeq(S) : S \in SUBSET (0..(NodeCount - 1))}
        \cup {<<n, n>> : n \in 0..(NodeCount - 1)}

TargetArgs ==
    {[type |-> "Tensor", data |-> d] : d \in TargetData}
        \cup {[type |-> "list", data |-> <<0>>]}

BudgetData == UNION {[1..n -> 1..MaxBudget] : n \in 0..MaxLayers}

BudgetArgs ==
    {[type |-> "list", data |-> d] : d \in BudgetData}
        \cup {[type |-> "ndarray", data |-> <<1>>]}

\* the arguments of the concurrent calls
ConcurrentTargetArgs ==
    {[type |-> "Tensor", data |-> d] : d \in {<<3>>, <<2, 3>>, <<1, 2, 3>>}}

ConcurrentBudgetArgs ==
    {[type |-> "list", data |-> d] : d \in {<<1>>, <<2>>, <<1, 2>>, <<2, 1>>}}

(***************************************************************************)
(* Specifications                                                          *)
(***************************************************************************)
InitWith(inputs) ==
    /\ all_edge_index \in inputs
    /\ constructed = FALSE
    /\ all_edge_index_with_self_loops = <<>>
    /\ all_edge_weights = <<>>
    /\ np_random_state \in 0..(RngPeriod - 1)
    /\ pc = [p \in Callers |-> "idle"]
    /\ args = [p \in Callers |-> NoArgs]
    /\ upper = [p \in Callers |-> <<>>]
    /\ todo = [p \in Callers |-> <<>>]
    /\ layers = [p \in Callers |-> <<>>]
    /\ result = [p \in Callers |-> <<>>]
    /\ err = [p \in Callers |-> "none"]
    /\ trace = [p \in Callers |-> <<>>]
    /\ rng0 = [p \in Callers |-> 0]
    /\ draws = [p \in Callers |-> <<>>]

\* one caller, one call at a time
Init == InitWith(EdgeIndexInputs) /\ split = NoSplit

Next ==
    \/ Construct
    \/ \E seed \in 0..(RngPeriod - 1) : set_seed(seed)
    \/ CanEnter("a") /\ \E t \in TargetArgs, b \in BudgetArgs : sample_enter("a", t, b)
    \/ sample_iterate("a")
    \/ sample_return("a")
    \/ next_call("a")

Spec == Init /\ [][Next]_vars

\* two callers whose calls interleave between the layers
InitConcurrent == InitWith({PathEdgeIndex}) /\ split = NoSplit

NextConcurrent ==
    \/ Construct
    \/ \E seed \in 0..(RngPeriod - 1) : set_seed(seed)
    \/ \E p \in Callers :
           CanEnter(p) /\ \E t \in ConcurrentTargetArgs, b \in ConcurrentBudgetArgs :
                              sample_enter(p, t, b)
    \/ \E p \in Callers : sample_iterate(p)
    \/ \E p \in Callers : sample_return(p)

SpecConcurrent == InitConcurrent /\ [][NextConcurrent]_vars

\* construction alone, from every edge index within the bounds
InitConstruct == InitWith(AllEdgeIndexes) /\ np_random_state = 0 /\ split = NoSplit

NextConstruct == Construct

SpecConstruct == InitConstruct /\ [][NextConstruct]_vars

\* the label tensors: every labelling of 1..MaxSplitNodes nodes
LabelInputs == UNION {[1..n -> 0..MaxClass] : n \in 1..MaxSplitNodes}

OptionalTotals == {NotGiven} \cup {Given(n) : n \in 0..MaxTotal}

\* the calls of random_splits_mask_class
SplitInputs ==
    {[NoSplit EXCEPT !.pc = "called", !.keys = k, !.label = l,
                     !.num_train_per_class = nt, !.num_val_per_class = nv,
                     !.total_num_val = tv, !.total_num_test = tt, !.seed = s] :
        k \in {"y", "label", "both", "none"}, l \in LabelInputs,
        nt \in 0..MaxPerClass, nv \in 0..MaxPerClass,
        tv \in OptionalTotals, tt \in OptionalTotals,
        s \in {NotGiven, Given(1)}}

\* the split of the masks alone
InitSplit == InitWith({<<>>}) /\ np_random_state = 0 /\ split \in SplitInputs

NextSplit ==
    \/ split_enter
    \/ split_class
    \/ split_rest_total
    \/ split_rest_default

SpecSplit == InitSplit /\ [][NextSplit]_vars

(***************************************************************************)
(* Properties                                                              *)
(***************************************************************************)
\* the invocations of __sample_layer a caller's current call has made
Invocations(p) == {trace[p][k] : k \in 1..Len(trace[p])}

\* the sum of the weights a layer gives to the selected edges of target t
WeightInto(r, t) ==
    RSum(Gather(r.edge_weight,
                SortedSeq({i \in 1..Len(r.edge_index) : Tgt(r.edge_index[i]) = t})))

\* the sources of the stored edges whose target is among the targets
CandidateSourceSet(targets) ==
    {Src(all_edge_index_with_self_loops[i]) :
        i \in {j \in 1..Len(all_edge_index_with_self_loops) :
                  Tgt(all_edge_index_with_self_loops[j]) \in Range(targets)}}

\* the invocation that produced the i-th returned layer of a call of L layers
LayerOf(p, i) == trace[p][Len(args[p].budgets.data) + 1 - i]

\* C1: in every layer of a returned call, for every node t of the layer's
\* target-node set, the normalized weights of the selected edges with target
\* t sum to exactly 1.
C1_EveryTargetSumsToOne ==
    \A p \in Callers :
        pc[p] = "returned" =>
            \A r \in Invocations(p) :
                \A t \in Range(r.targets) : WeightInto(r, t) = One

\* C2: a returned call of L budgets has made L layer invocations, the first
\* from the top-layer targets, and returns L layers input side first:
\* result[i] is the layer sampled with budgets[i], result[L] the one sampled
\* first.
C2_LayersInputSideFirst ==
    \A p \in Callers :
        pc[p] = "returned" =>
            LET b == args[p].budgets.data
            IN  /\ Len(result[p]) = Len(b)
                /\ Len(trace[p]) = Len(b)
                /\ trace[p][1].targets = args[p].targets.data
                /\ \A i \in 1..Len(b) :
                       /\ LayerOf(p, i).budget = b[i]
                       /\ result[p][i][1] = LayerOf(p, i).edge_index
                       /\ result[p][i][2] = LayerOf(p, i).edge_weight

\* C2 witness: a returned two-layer call with two different budgets and two
\* different layers
C2_Witness ==
    \E p \in Callers :
        /\ pc[p] = "returned"
        /\ Len(args[p].budgets.data) = 2
        /\ args[p].budgets.data[1] # args[p].budgets.data[2]
        /\ result[p][1] # result[p][2]

\* C3 as stated: every returned layer is the 4-tuple (edge_index,
\* edge_weight, selected_source_nodes, selected_edge_indexes).
C3_LayerIsFourTuple ==
    \A p \in Callers :
        pc[p] = "returned" =>
            \A i \in 1..Len(result[p]) :
                /\ Len(result[p][i]) = 4
                /\ result[p][i][3] = LayerOf(p, i).selected_source
                /\ result[p][i][4] = LayerOf(p, i).selected_edges

\* C3 as amended: every returned layer is the pair (edge_index, edge_weight)
\* of its invocation; the selected source nodes and selected edge indexes
\* that the invocation computed are not in it.
C3_LayerIsPair ==
    \A p \in Callers :
        pc[p] = "returned" =>
            \A i \in 1..Len(result[p]) :
                /\ Len(result[p][i]) = 2
                /\ result[p][i] =
                       <<LayerOf(p, i).edge_index, LayerOf(p, i).edge_weight>>

\* C3 witness: a returned layer whose invocation selected sources and edges
C3_Witness ==
    \E p \in Callers :
        /\ pc[p] = "returned"
        /\ Len(result[p]) >= 1
        /\ LayerOf(p, 1).selected_source # <<>>
        /\ LayerOf(p, 1).selected_edges # <<>>

RECURSIVE LayersAlone(_, _, _)
LayersAlone(targets, budgets, st) ==
    IF budgets = <<>> THEN <<>>
    ELSE LET r == sample_layer(all_edge_index_with_self_loops, all_edge_weights,
                               targets, Head(budgets), st)
         IN  IF r.stage # "returned" THEN <<>>
             ELSE <<layer_entry(r)>>
                      \o LayersAlone(r.selected_source, Tail(budgets), r.rng_after)

\* C5: the draws of a call depend on no state shared with other calls: what
\* a call returns is what it returns when it runs alone from the random
\* state it was entered in, whatever other calls are interleaved with it.
C5_ResultIndependentOfOtherCalls ==
    \A p \in Callers :
        pc[p] = "returned" =>
            result[p] =
                returned_layers(
                    LayersAlone(args[p].targets.data,
                                budgets_in_loop_order(args[p].budgets.data),
                                rng0[p]))

\* C6: an invocation whose budget is at least the number of unique candidate
\* sources selects exactly the candidate source set, makes no draw and
\* leaves the random state alone; on the path 0->1->2->3 with target {3} and
\* budget 2 the selection is {2, 3}.
C6_BudgetCoversCandidates ==
    \A p \in Callers :
        \A r \in Invocations(p) :
            /\ (r.probs_computed
                    /\ r.budget >= Cardinality(CandidateSourceSet(r.targets))) =>
                   /\ Range(r.selected_source) = CandidateSourceSet(r.targets)
                   /\ Len(r.selected_source) = Cardinality(CandidateSourceSet(r.targets))
                   /\ ~r.drew
                   /\ r.picks = <<>>
                   /\ r.rng_after = r.rng_before
            /\ (all_edge_index = PathEdgeIndex /\ Range(r.targets) = {3}
                    /\ r.budget = 2) =>
                   r.selected_source = <<2, 3>>

\* C6 witness: the path with target {3} and budget 2, the number of
\* candidate sources
C6_Witness ==
    \E p \in Callers :
        \E r \in Invocations(p) :
            /\ all_edge_index = PathEdgeIndex
            /\ r.targets = <<3>>
            /\ r.budget = 2
            /\ r.stage = "returned"
            /\ Cardinality(CandidateSourceSet(r.targets)) = 2

\* C7: for a non-empty target-node set there is one probability per unique
\* candidate source and the probabilities sum to exactly 1.
C7_ProbabilitiesSumToOne ==
    \A p \in Callers :
        \A r \in Invocations(p) :
            Range(r.targets) # {} =>
                /\ r.probs_computed
                /\ Range(r.candidate_sources) = CandidateSourceSet(r.targets)
                /\ Len(r.candidate_sources) = Cardinality(CandidateSourceSet(r.targets))
                /\ Len(r.probabilities) = Len(r.candidate_sources)
                /\ RSum(r.probabilities) = One

\* C7 witness: three candidate sources whose probabilities differ
C7_Witness ==
    \E p \in Callers :
        \E r \in Invocations(p) :
            /\ Len(r.candidate_sources) >= 3
            /\ r.probabilities[1] # r.probabilities[2]

C9_EveryNodeHasDegree ==
    constructed =>
        /\ NodeCount = MaybeNumNodes(all_edge_index)
        /\ \A n \in 0..(NodeCount - 1) :
               /\ \E i \in 1..Len(all_edge_index_with_self_loops) :
                      Src(all_edge_index_with_self_loops[i]) = n
               /\ \E i \in 1..Len(all_edge_index_with_self_loops) :
                      Tgt(all_edge_index_with_self_loops[i]) = n

\* C9 witness: a sampler built from an edge index with a self-loop, a
\* duplicate edge and a node that is the source of no edge given
C9_Witness ==
    /\ constructed
    /\ \E i \in 1..Len(all_edge_index) : Src(all_edge_index[i]) = Tgt(all_edge_index[i])
    /\ \E i, j \in 1..Len(all_edge_index) :
           /\ i # j
           /\ all_edge_index[i] = all_edge_index[j]
           /\ Src(all_edge_index[i]) # Tgt(all_edge_index[i])
    /\ \E n \in 0..(NodeCount - 1) :
           \A i \in 1..Len(all_edge_index) : Src(all_edge_index[i]) # n

\* C10: two returned calls with the same targets, the same budgets and the
\* same sequence of draws have selected the same sources and computed the
\* same edge weights in every layer, and return the same layers.
C10_SameDrawsSameLayers ==
    \A p, q \in Callers :
        (/\ pc[p] = "returned" /\ pc[q] = "returned"
         /\ args[p] = args[q]
         /\ draws[p] = draws[q]) =>
            /\ result[p] = result[q]
            /\ Len(trace[p]) = Len(trace[q])
            /\ \A k \in 1..Len(trace[p]) :
                   /\ trace[p][k].selected_source = trace[q][k].selected_source
                   /\ trace[p][k].edge_weight = trace[q][k].edge_weight

\* C10 witness: two calls entered with the same seed and the same arguments
\* that both drew
C10_Witness ==
    /\ pc["a"] = "returned" /\ pc["b"] = "returned"
    /\ args["a"] = args["b"]
    /\ rng0["a"] = rng0["b"]
    /\ draws["a"] # <<>>
    /\ draws["a"] = draws["b"]

\* C11: within a call the k-th invocation (k >= 2) gets as target-node set
\* exactly the source nodes the (k-1)-th selected; so in a returned call
\* every edge of a layer but the last has its target among the sources
\* selected for the next returned layer, and every edge of the last returned
\* layer has its target among the top-layer targets.
C11_LayersChained ==
    \A p \in Callers :
        /\ \A k \in 2..Len(trace[p]) :
               trace[p][k].targets = trace[p][k - 1].selected_source
        /\ pc[p] = "returned" =>
               LET L == Len(result[p])
               IN  \A i \in 1..L :
                       \A j \in 1..Len(result[p][i][1]) :
                           Tgt(result[p][i][1][j]) \in
                               (IF i < L THEN Range(LayerOf(p, i + 1).selected_source)
                                ELSE Range(args[p].targets.data))

\* C11 witness: a returned two-layer call whose first invocation drew and
\* left a candidate source unselected
C11_Witness ==
    \E p \in Callers :
        /\ pc[p] = "returned"
        /\ Len(result[p]) = 2
        /\ trace[p][1].drew
        /\ Len(trace[p][1].selected_source) < Len(trace[p][1].candidate_sources)
        /\ result[p][1][1] # <<>>

\* C12: the selected edge indexes of a layer are, in ascending order and
\* without repetition, exactly the indexes of the stored edges whose source
\* is a selected source and whose target is a target node; the layer's
\* edge_index and edge_weight have one entry per selected index, the k-th
\* edge being the stored edge of the k-th index.
C12_SelectedEdgesExact ==
    \A p \in Callers :
        \A r \in Invocations(p) :
            r.stage = "returned" =>
                /\ Range(r.selected_edges) =
                       {i \in 1..Len(all_edge_index_with_self_loops) :
                           /\ Src(all_edge_index_with_self_loops[i])
                                  \in Range(r.selected_source)
                           /\ Tgt(all_edge_index_with_self_loops[i])
                                  \in Range(r.targets)}
                /\ \A k \in 1..(Len(r.selected_edges) - 1) :
                       r.selected_edges[k] < r.selected_edges[k + 1]
                /\ Len(r.edge_index) = Len(r.selected_edges)
                /\ Len(r.edge_weight) = Len(r.selected_edges)
                /\ \A k \in 1..Len(r.selected_edges) :
                       r.edge_index[k] =
                           all_edge_index_with_self_loops[r.selected_edges[k]]

\* C12 witness: a layer that selected some but not all edges into its
\* targets, and whose selected sources have an edge to a node that is no
\* target
C12_Witness ==
    \E p \in Callers :
        \E r \in Invocations(p) :
            /\ r.stage = "returned"
            /\ Len(r.selected_edges) >= 2
            /\ Len(r.selected_edges) < Len(r.candidate_edges)
            /\ \E i \in 1..Len(all_edge_index_with_self_loops) :
                   /\ Src(all_edge_index_with_self_loops[i]) \in Range(r.selected_source)
                   /\ Tgt(all_edge_index_with_self_loops[i]) \notin Range(r.targets)

\* C13: whatever calls have been made, returned or raised, the stored edge
\* set and the stored edge weights are those __init__ computed from the edge
\* index given; the normalization of a layer's weights writes nothing into
\* the stored weights.
C13_StoredEdgesAndWeightsKept ==
    constructed =>
        /\ all_edge_index_with_self_loops = add_remaining_self_loops(all_edge_index)
        /\ all_edge_weights = compute_edge_weights(all_edge_index_with_self_loops)

\* C13 witness: a returned call one of whose layers was given normalized
\* weights that differ from the stored weights of its selected edges
C13_Witness ==
    \E p \in Callers :
        /\ pc[p] = "returned"
        /\ \E r \in Invocations(p) :
               /\ r.stage = "returned"
               /\ r.edge_weight # Gather(all_edge_weights, r.selected_edges)

\* whether x is a rational greater than 0
Positive(x) == x[1] > 0 /\ x[2] > 0

\* C14: in every layer invocation that computed probabilities, the lookup of
\* a selected edge's source probability did not fail; every selected source
\* is a candidate source, every selected edge is a candidate edge of the
\* layer (its target is a target node), its source occurs exactly once among
\* the candidate sources, with a probability greater than 0, and its
\* reweighted value is a finite number greater than 0.
C14_ProbabilityLookupSafe ==
    \A p \in Callers :
        \A r \in Invocations(p) :
            r.probs_computed =>
                /\ r.stage # "reweight"
                /\ Range(r.candidate_edges) =
                       {i \in 1..Len(all_edge_index_with_self_loops) :
                           Tgt(all_edge_index_with_self_loops[i]) \in Range(r.targets)}
                /\ Len(r.probabilities) = Len(r.candidate_sources)
                /\ \A k \in 1..Len(r.probabilities) : Positive(r.probabilities[k])
                /\ Range(r.selected_source) \subseteq Range(r.candidate_sources)
                /\ \A k \in 1..Len(r.selected_edges) :
                       /\ r.selected_edges[k] \in Range(r.candidate_edges)
                       /\ Cardinality({j \in 1..Len(r.candidate_sources) :
                              r.candidate_sources[j] =
                                  Src(all_edge_index_with_self_loops[r.selected_edges[k]])})
                              = 1
                /\ r.stage = "returned" =>
                       /\ Len(r.raw_weight) = Len(r.selected_edges)
                       /\ \A k \in 1..Len(r.raw_weight) : Positive(r.raw_weight[k])

\* C14 witness: a layer that drew, left a candidate source unselected and
\* reweighted at least two selected edges
C14_Witness ==
    \E p \in Callers :
        \E r \in Invocations(p) :
            /\ r.stage = "returned"
            /\ r.drew
            /\ Len(r.selected_source) < Len(r.candidate_sources)
            /\ Len(r.raw_weight) >= 2

\* w(e) / p(src(e)) for the k-th selected edge of an invocation
WeightOverProbability(r, k) ==
    RDiv(all_edge_weights[r.selected_edges[k]],
         r.probabilities[CHOOSE j \in 1..Len(r.candidate_sources) :
             r.candidate_sources[j] =
                 Src(all_edge_index_with_self_loops[r.selected_edges[k]])])

\* C15: the weight a layer returns for a selected edge e of target t is
\* (w(e) / p(src(e))) divided by the sum of w(e') / p(src(e')) over the
\* selected edges e' of target t, whatever the divisor of the reweighting
\* step: dividing by the budget B instead of the number of selected sources
\* gives the same normalized weights.
C15_DivisorCancels ==
    \A p \in Callers :
        \A r \in Invocations(p) :
            r.stage = "returned" =>
                /\ \A k \in 1..Len(r.selected_edges) :
                       r.edge_weight[k] =
                           RDiv(WeightOverProbability(r, k),
                                RSum([j \in 1..Cardinality(
                                          {i \in 1..Len(r.selected_edges) :
                                              Tgt(r.edge_index[i]) = Tgt(r.edge_index[k])})
                                      |-> WeightOverProbability(r,
                                              SortedSeq({i \in 1..Len(r.selected_edges) :
                                                  Tgt(r.edge_index[i]) =
                                                      Tgt(r.edge_index[k])})[j])]))
                /\ r.edge_weight =
                       normalize_edges_weight_by_target_nodes(
                           r.edge_index,
                           [k \in 1..Len(r.selected_edges) |->
                               RDiv(WeightOverProbability(r, k), Rat(r.budget, 1))])

\* C15 witness: a layer whose draw selected fewer sources than the budget
\* and whose reweighted values differ from the normalized ones
C15_Witness ==
    \E p \in Callers :
        \E r \in Invocations(p) :
            /\ r.stage = "returned"
            /\ r.drew
            /\ Len(r.selected_source) < r.budget
            /\ r.raw_weight # r.edge_weight

\* C16: the train, validation and test masks random_splits_mask_class stores
\* are pairwise disjoint, with total_num_val positive and with it not given
C16_MasksPairwiseDisjoint ==
    split.data.stored =>
        /\ split.data.train_mask \cap split.data.val_mask = {}
        /\ split.data.train_mask \cap split.data.test_mask = {}
        /\ split.data.val_mask \cap split.data.test_mask = {}

====
